---- MODULE Spec2Model ----
(***************************************************************************)
(* Model of the two scripts of the workforce_dev repository.               *)
(*                                                                         *)
(*   simple_labor_market_download.py  a straight-line script: STEP 1       *)
(*       downloads three total-US series, STEP 2 loads three foreign-born  *)
(*       files, STEP 3 merges and derives, STEP 4 builds the comparison,   *)
(*       STEP 5 the annual averages, then the final summary is printed.    *)
(*   download_workforce_data.py       the Fetcher functions.               *)
(*                                                                         *)
(* A DataFrame is a record [dtype, cols, rows]: dtype is the dtype of the  *)
(* 'Date' column ("object" for the strings read_csv yields, "datetime64"   *)
(* after pd.to_datetime), cols the column names in order, rows the rows in *)
(* order, each a function from column name to value.  A date string        *)
(* 'YYYY-MM-01' is the sequence of its six digits YYYYMM (the series are   *)
(* monthly, the day is always 01); a datetime is the integer YYYYMM.       *)
(* Counts are integers; the values of the ratio columns are floating-point *)
(* and are kept as the expression that computes them.                      *)
(***************************************************************************)
EXTENDS Integers, Sequences, FiniteSets, TLC

VARIABLES
    pc,          \* position of simple_labor_market_download.py
    idx,         \* position of the STEP 1 loop in total_us_series (1..3)
    response,    \* what each STEP 1 fetch met: name -> outcome record
    total_data,  \* the dict total_data: name -> DataFrame
    files,       \* files written by the script: filename -> CSV content
    fb_disk,     \* what STEP 2 found on disk: file -> "readable" | "missing"
    fb,          \* <<>> or <<[fb_lf, fb_emp, fb_lfp]>> once loaded
    merged,      \* <<>> while the name is unbound, else <<DataFrame>>
    comparison,  \* <<>> while the name is unbound, else <<DataFrame>>
    annual,      \* <<>> while the name is unbound, else <<DataFrame>>
    latest,      \* <<>> or <<row>>: comparison.iloc[-1]
    growth,      \* <<>> or <<[fb_growth, nb_growth]>>
    console,     \* the messages printed, in order
    exit_code,   \* -1 while running, then the exit status
    calls,       \* download_workforce_data.py: log of Fetcher calls
    session      \* [input, first]: the join result the run started from
                 \* (<<>> in a whole run) and, in a second invocation, what
                 \* the first one left (<<>> during the first)

vars == <<pc, idx, response, total_data, files, fb_disk, fb, merged,
          comparison, annual, latest, growth, console, exit_code, calls,
          session>>

----------------------------------------------------------------------------
(* Bounds *)

\* rows per input table
MaxLen == 1
\* rows of a join result handed to the Deriver (SpecDerive)
MaxRows == 3
\* Fetcher calls of one caller (SpecFetch)
MaxCalls == 2
\* rows of a join result the script is run twice on (SpecTwice)
MaxRerunRows == 2

----------------------------------------------------------------------------
(* Dates *)

Pow10(k) == IF k = 0 THEN 1 ELSE IF k = 1 THEN 10 ELSE IF k = 2 THEN 100
            ELSE IF k = 3 THEN 1000 ELSE IF k = 4 THEN 10000 ELSE 100000

\* pd.to_datetime on one date string
ParseDate(s) == s[1] * 100000 + s[2] * 10000 + s[3] * 1000
                + s[4] * 100 + s[5] * 10 + s[6]

\* how to_csv writes one datetime
FormatDate(d) == [k \in 1..6 |-> (d \div Pow10(6 - k)) % 10]

\* .dt.year
Year(d) == d \div 100

\* the literal '2015-01-01' of the STEP 1 filter
Cutoff == <<2, 0, 1, 5, 0, 1>>

YearLo == 2015
YearHi == 2024

----------------------------------------------------------------------------
(* Names *)

SeriesOrder == <<"Total_US_Labor_Force", "Total_US_Employment",
                 "Total_US_LF_Participation">>

total_us_series ==
    [n \in {SeriesOrder[k] : k \in 1..3} |->
        CASE n = "Total_US_Labor_Force" -> "CLF16OV"
          [] n = "Total_US_Employment" -> "CE16OV"
          [] n = "Total_US_LF_Participation" -> "CIVPART"]

TotalNames == DOMAIN total_us_series

\* f'labor_market_data/fred_{series_id}_{name}.csv'
filename(name) ==
    CASE name = "Total_US_Labor_Force" -> "fred_CLF16OV_Total_US_Labor_Force.csv"
      [] name = "Total_US_Employment" -> "fred_CE16OV_Total_US_Employment.csv"
      [] name = "Total_US_LF_Participation" -> "fred_CIVPART_Total_US_LF_Participation.csv"

FbOrder == <<"Foreign_Born_Labor_Force", "Foreign_Born_Employment",
             "Foreign_Born_LF_Participation">>

FbNames == {FbOrder[k] : k \in 1..3}

CompleteFile == "complete_labor_force_data.csv"
ComparisonFile == "foreign_vs_native_comparison.csv"
AnnualFile == "annual_foreign_vs_native.csv"

DerivedFiles == {CompleteFile, ComparisonFile, AnnualFile}

----------------------------------------------------------------------------
(* Sequences *)

Range(s) == {s[k] : k \in 1..Len(s)}

MapRows(rows, F(_)) == [k \in 1..Len(rows) |-> F(rows[k])]

\* the strictly ascending sequences over S of length at most n
AscSeqs(S, n) ==
    UNION {{s \in [1..k -> S] : \A a, b \in 1..k : a < b => s[a] < s[b]}
           : k \in 0..n}

\* the sequences over S without repetition of length at most n
InjSeqs(S, n) ==
    UNION {{s \in [1..k -> S] : \A a, b \in 1..k : a # b => s[a] # s[b]}
           : k \in 0..n}

----------------------------------------------------------------------------
(* DataFrames *)

DataFrame(dtype, cols, rows) == [dtype |-> dtype, cols |-> cols, rows |-> rows]

HasColumns(df, names) == names \subseteq Range(df.cols)

\* pd.to_datetime on the 'Date' column (of strings, or already datetimes)
ToDatetime(df) ==
    IF df.dtype = "datetime64" THEN df
    ELSE DataFrame("datetime64", df.cols,
            MapRows(df.rows, LAMBDA r : [r EXCEPT !["Date"] = ParseDate(@)]))

\* to_csv followed by what a later read_csv of the file yields: dates as strings
ToCsv(df) ==
    IF df.dtype # "datetime64" THEN df
    ELSE DataFrame("object", df.cols,
            MapRows(df.rows, LAMBDA r : [r EXCEPT !["Date"] = FormatDate(@)]))

\* to_csv opened in append mode (mode='a'): the rows go after those of an
\* existing file
WriteFileAppend(disk, f, df) ==
    IF f \in DOMAIN disk
    THEN (f :> [disk[f] EXCEPT !.rows = @ \o ToCsv(df).rows]) @@ disk
    ELSE (f :> ToCsv(df)) @@ disk

\* df.to_csv(f, index=False): the file is created or replaced as a whole
WriteFile(disk, f, df) == (f :> ToCsv(df)) @@ disk

\* df[df['Date'] >= '2015-01-01'] on a datetime column
FilterFrom2015(df) ==
    DataFrame(df.dtype, df.cols,
        SelectSeq(df.rows, LAMBDA r : r["Date"] >= ParseDate(Cutoff)))

\* the dates of a table, as datetimes, whatever its dtype
DatesOf(df) ==
    {IF df.dtype = "object" THEN ParseDate(df.rows[k]["Date"])
     ELSE df.rows[k]["Date"] : k \in 1..Len(df.rows)}

----------------------------------------------------------------------------
(* Inputs *)

\* the observation dates FRED can return for a total-US series
RawDates == {201412, 201501}

\* the observation dates a foreign-born file can hold
FbDates == {201501, 202401}

ValuesOf(name) ==
    CASE name = "Total_US_Labor_Force" -> {160000}
      [] name = "Total_US_Employment" -> {150000}
      [] name = "Total_US_LF_Participation" -> {63}
      [] name = "Foreign_Born_Labor_Force" -> {28000}
      [] name = "Foreign_Born_Employment" -> {27000}
      [] name = "Foreign_Born_LF_Participation" -> {66}

\* the two-column CSV bodies FRED can answer with: <<date string, value>> lines,
\* in date order
RawBodies(name) ==
    UNION {{[k \in 1..Len(ds) |-> <<FormatDate(ds[k]), v>>] : v \in ValuesOf(name)}
           : ds \in AscSeqs(RawDates, MaxLen)}

\* what pd.read_csv(url) can meet
Responses(name) ==
    {[kind |-> "http_error", body |-> <<>>], [kind |-> "parse_error", body |-> <<>>]}
    \cup {[kind |-> "ok", body |-> b] : b \in RawBodies(name)}

\* the contents a foreign-born file can have: columns Date and the series name
FbTables(name) ==
    UNION {{DataFrame("object", <<"Date", name>>,
                [k \in 1..Len(ds) |-> ("Date" :> FormatDate(ds[k])) @@ (name :> v)])
            : v \in ValuesOf(name)}
           : ds \in AscSeqs(FbDates, MaxLen)}

----------------------------------------------------------------------------
(* simple_labor_market_download.py: start, STEP 1, STEP 2 *)

Say(msg, arg) == console \o <<<<msg, arg>>>>

Init ==
    /\ pc = "step1"
    /\ idx = 1
    /\ response = <<>>
    /\ total_data = <<>>
    /\ files = <<>>
    /\ fb_disk = <<>>
    /\ fb = <<>>
    /\ merged = <<>>
    /\ comparison = <<>>
    /\ annual = <<>>
    /\ latest = <<>>
    /\ growth = <<>>
    /\ console = <<>>
    /\ exit_code = -1
    /\ calls = <<>>
    /\ session = [input |-> <<>>, first |-> <<>>]

\* pd.read_csv(url); df.columns = ['Date', name]; to_datetime; filter
FetchedTable(name, body) ==
    FilterFrom2015(ToDatetime(
        DataFrame("object", <<"Date", name>>,
            MapRows(body, LAMBDA l : ("Date" :> l[1]) @@ (name :> l[2])))))

\* where the loop goes after the body for SeriesOrder[k]
AfterSeries(k) == IF k = Len(SeriesOrder) THEN "step2" ELSE "step1"

\* the loop left at the first failure (a break in the except clause)
FetchFailsBreaks ==
    /\ pc = "step1"
    /\ \E r \in Responses(SeriesOrder[idx]) :
        /\ r.kind # "ok"
        /\ response' = response @@ (SeriesOrder[idx] :> [kind |-> r.kind, body |-> r.body, saved |-> FALSE])
        /\ console' = Say("step1_failed", SeriesOrder[idx])
    /\ pc' = "step2"
    /\ idx' = idx + 1
    /\ UNCHANGED <<total_data, files, fb_disk, fb, merged, comparison, annual,
                   latest, growth, exit_code, calls,
                   session>>

\* one iteration of the STEP 1 loop whose try block raises before line 39
FetchFails ==
    /\ pc = "step1"
    /\ \E r \in Responses(SeriesOrder[idx]) :
        /\ r.kind # "ok"
        /\ response' = response @@ (SeriesOrder[idx] :> [kind |-> r.kind, body |-> r.body, saved |-> FALSE])
        /\ console' = Say("step1_failed", SeriesOrder[idx])
    /\ pc' = AfterSeries(idx)
    /\ idx' = idx + 1
    /\ UNCHANGED <<total_data, files, fb_disk, fb, merged, comparison, annual,
                   latest, growth, exit_code, calls,
                   session>>

\* the table stored after the file is written
\* (total_data[name] = df moved below df.to_csv)
FetchSucceedsStoresAfterSave ==
    /\ pc = "step1"
    /\ \E r \in Responses(SeriesOrder[idx]), saved \in BOOLEAN :
        LET name == SeriesOrder[idx]
            df == FetchedTable(name, r.body)
        IN  /\ r.kind = "ok"
            /\ response' = response @@ (name :> [kind |-> r.kind, body |-> r.body, saved |-> saved])
            /\ IF saved
               THEN /\ files' = WriteFile(files, filename(name), df)
                    /\ total_data' = (name :> df) @@ total_data
                    /\ console' = Say("step1_saved", name)
               ELSE /\ files' = files
                    /\ total_data' = total_data
                    /\ console' = Say("step1_failed", name)
    /\ pc' = AfterSeries(idx)
    /\ idx' = idx + 1
    /\ UNCHANGED <<fb_disk, fb, merged, comparison, annual, latest, growth,
                   exit_code, calls,
                   session>>

\* one iteration whose download and parse succeed; to_csv may still raise
FetchSucceeds ==
    /\ pc = "step1"
    /\ \E r \in Responses(SeriesOrder[idx]), saved \in BOOLEAN :
        LET name == SeriesOrder[idx]
            df == FetchedTable(name, r.body)
        IN  /\ r.kind = "ok"
            /\ response' = response @@ (name :> [kind |-> r.kind, body |-> r.body, saved |-> saved])
            /\ total_data' = (name :> df) @@ total_data
            /\ IF saved
               THEN /\ files' = WriteFile(files, filename(name), df)
                    /\ console' = Say("step1_saved", name)
               ELSE /\ files' = files
                    /\ console' = Say("step1_failed", name)
    /\ pc' = AfterSeries(idx)
    /\ idx' = idx + 1
    /\ UNCHANGED <<fb_disk, fb, merged, comparison, annual, latest, growth,
                   exit_code, calls,
                   session>>

\* read_csv of the three foreign-born files, in the order of lines 58-60
ReadOrder == FbOrder

\* STEP 2 when the three read_csv calls succeed
LoadForeignBorn ==
    /\ pc = "step2"
    /\ \E lf \in FbTables(ReadOrder[1]), emp \in FbTables(ReadOrder[2]),
          lfp \in FbTables(ReadOrder[3]) :
        /\ fb_disk' = [n \in FbNames |-> "readable"]
        /\ fb' = <<[fb_lf |-> lf, fb_emp |-> emp, fb_lfp |-> lfp]>>
    /\ console' = Say("step2_loaded", "")
    /\ pc' = "step3"
    /\ UNCHANGED <<idx, response, total_data, files, merged, comparison, annual,
                   latest, growth, exit_code, calls,
                   session>>

\* the except clause of STEP 2 without its exit(1): the script goes on
LoadFailsGoesOn ==
    /\ pc = "step2"
    /\ \E bad \in SUBSET FbNames :
        /\ bad # {}
        /\ fb_disk' = [n \in FbNames |-> IF n \in bad THEN "missing" ELSE "readable"]
    /\ console' = Say("step2_error", "")
    /\ pc' = "final"
    /\ UNCHANGED <<idx, response, total_data, files, fb, merged, comparison,
                   annual, latest, growth, exit_code, calls,
                   session>>

\* STEP 2 when a read_csv raises (a file is missing or unreadable): exit(1)
LoadFails ==
    /\ pc = "step2"
    /\ \E bad \in SUBSET FbNames :
        /\ bad # {}
        /\ fb_disk' = [n \in FbNames |-> IF n \in bad THEN "missing" ELSE "readable"]
    /\ console' = Say("step2_error", "")
    /\ pc' = "exit1"
    /\ exit_code' = 1
    /\ UNCHANGED <<idx, response, total_data, files, fb, merged, comparison,
                   annual, latest, growth, calls,
                   session>>

----------------------------------------------------------------------------
(* STEP 3: merge *)

\* pandas refuses to merge a datetime64 key with an object (string) key
\* ("You are trying to merge on datetime64[ns] and object columns"), unless
\* exactly one of the two sides has no row, when the key check is skipped
KeysMergeable(left, right) ==
    \/ left.dtype = right.dtype
    \/ (Len(left.rows) = 0) # (Len(right.rows) = 0)

RECURSIVE JoinRows(_, _)
\* the rows of an inner join on 'Date': for each left row in order, the
\* right rows with an equal key in order, the columns of both
JoinRows(lrows, rrows) ==
    IF lrows = <<>> THEN <<>>
    ELSE MapRows(SelectSeq(rrows, LAMBDA r : r["Date"] = Head(lrows)["Date"]),
                 LAMBDA r : Head(lrows) @@ r)
         \o JoinRows(Tail(lrows), rrows)

\* how='left' in place of how='inner': every left row is kept, with no value
\* (null) in the columns of the right table where no right row has its key
LeftJoin(left, right) ==
    DataFrame(left.dtype, left.cols \o Tail(right.cols),
        IF left.dtype = right.dtype /\ Len(right.rows) > 0
        THEN JoinRows(left.rows, right.rows)
        ELSE left.rows)

\* left.merge(right, on='Date', how='inner'), once the keys are mergeable:
\* keys of different dtypes never compare equal
InnerJoin(left, right) ==
    DataFrame(left.dtype, left.cols \o Tail(right.cols),
        IF left.dtype = right.dtype THEN JoinRows(left.rows, right.rows) ELSE <<>>)

\* the tables STEP 3 merges, in the order of lines 79-84
MergeOrder ==
    <<[from |-> "total_data", key |-> "Total_US_Labor_Force"],
      [from |-> "fb", key |-> "fb_lf"],
      [from |-> "total_data", key |-> "Total_US_Employment"],
      [from |-> "fb", key |-> "fb_emp"],
      [from |-> "total_data", key |-> "Total_US_LF_Participation"],
      [from |-> "fb", key |-> "fb_lfp"]>>

\* whether evaluating the k-th operand raises (KeyError on total_data[...])
OperandMissing(td, k) ==
    MergeOrder[k].from = "total_data" /\ MergeOrder[k].key \notin DOMAIN td

Operand(td, f, k) ==
    IF MergeOrder[k].from = "total_data" THEN td[MergeOrder[k].key]
    ELSE f[MergeOrder[k].key]

RECURSIVE MergeFrom(_, _, _, _)
\* lines 80-84 from the k-th operand on, with `cur` the value bound to
\* `merged` so far: [error, merged], error "" when every line ran
MergeFrom(k, cur, td, f) ==
    IF k > Len(MergeOrder) THEN [error |-> "", merged |-> <<cur>>]
    ELSE IF OperandMissing(td, k) THEN [error |-> "KeyError", merged |-> <<cur>>]
    ELSE IF ~KeysMergeable(cur, Operand(td, f, k))
         THEN [error |-> "ValueError", merged |-> <<cur>>]
    ELSE MergeFrom(k + 1, InnerJoin(cur, Operand(td, f, k)), td, f)

\* an absent total-US table taken as an empty one,
\* total_data.get(name, <empty table>), in place of total_data[name]
WithDefaults(td) ==
    [n \in TotalNames |->
        IF n \in DOMAIN td THEN td[n] ELSE DataFrame("datetime64", <<"Date", n>>, <<>>)]

MergeAllWithDefaults(td, f) ==
    MergeFrom(2, Operand(WithDefaults(td), f, 1), WithDefaults(td), f)

\* lines 79-84: the name `merged` keeps the last value assigned before a raise
MergeAll(td, f) ==
    IF OperandMissing(td, 1) THEN [error |-> "KeyError", merged |-> <<>>]
    ELSE MergeFrom(2, Operand(td, f, 1), td, f)

\* STEP 3, lines 77-84, when a line raises: the except clause reports it
MergeRaises ==
    /\ pc = "step3"
    /\ MergeAll(total_data, fb[1]).error # ""
    /\ merged' = MergeAll(total_data, fb[1]).merged
    /\ console' = Say("step3_error", MergeAll(total_data, fb[1]).error)
    /\ pc' = "step4"
    /\ UNCHANGED <<idx, response, total_data, files, fb_disk, fb, comparison,
                   annual, latest, growth, exit_code, calls,
                   session>>

\* STEP 3, lines 77-84, when the six tables are merged
MergeDone ==
    /\ pc = "step3"
    /\ MergeAll(total_data, fb[1]).error = ""
    /\ merged' = MergeAll(total_data, fb[1]).merged
    /\ pc' = "step3_derive"
    /\ UNCHANGED <<idx, response, total_data, files, fb_disk, fb, comparison,
                   annual, latest, growth, console, exit_code, calls,
                   session>>

----------------------------------------------------------------------------
(* STEP 3: derive and save *)

\* a floating-point value, kept as the operation that computes it
Flt(op, l, r) == <<op, l, r>>

\* the residuals clamped at zero, max(total - subset, 0)
DeriveRowClamped(r) ==
    LET diff(a, b) == IF a - b < 0 THEN 0 ELSE a - b
        nb_lf == diff(r["Total_US_Labor_Force"], r["Foreign_Born_Labor_Force"])
        nb_emp == diff(r["Total_US_Employment"], r["Foreign_Born_Employment"])
        total_pop_in_lf == Flt("/", r["Total_US_Labor_Force"],
                               Flt("/", r["Total_US_LF_Participation"], 100))
        fb_pop_in_lf == Flt("/", r["Foreign_Born_Labor_Force"],
                            Flt("/", r["Foreign_Born_LF_Participation"], 100))
        nb_pop == Flt("-", total_pop_in_lf, fb_pop_in_lf)
    IN  r @@ ("Native_Born_Labor_Force" :> nb_lf)
          @@ ("Native_Born_Employment" :> nb_emp)
          @@ ("Native_Born_LF_Participation" :> Flt("*", Flt("/", nb_lf, nb_pop), 100))
          @@ ("Foreign_Born_Emp_Pop_Ratio" :>
                 Flt("*", Flt("/", r["Foreign_Born_Employment"], fb_pop_in_lf), 100))
          @@ ("Native_Born_Emp_Pop_Ratio" :> Flt("*", Flt("/", nb_emp, nb_pop), 100))

\* lines 87-110 on one merged row
DeriveRow(r) ==
    LET nb_lf == r["Total_US_Labor_Force"] - r["Foreign_Born_Labor_Force"]
        nb_emp == r["Total_US_Employment"] - r["Foreign_Born_Employment"]
        total_pop_in_lf == Flt("/", r["Total_US_Labor_Force"],
                               Flt("/", r["Total_US_LF_Participation"], 100))
        fb_pop_in_lf == Flt("/", r["Foreign_Born_Labor_Force"],
                            Flt("/", r["Foreign_Born_LF_Participation"], 100))
        nb_pop == Flt("-", total_pop_in_lf, fb_pop_in_lf)
    IN  r @@ ("Native_Born_Labor_Force" :> nb_lf)
          @@ ("Native_Born_Employment" :> nb_emp)
          @@ ("Native_Born_LF_Participation" :> Flt("*", Flt("/", nb_lf, nb_pop), 100))
          @@ ("Foreign_Born_Emp_Pop_Ratio" :>
                 Flt("*", Flt("/", r["Foreign_Born_Employment"], fb_pop_in_lf), 100))
          @@ ("Native_Born_Emp_Pop_Ratio" :> Flt("*", Flt("/", nb_emp, nb_pop), 100))

DerivedCols == <<"Native_Born_Labor_Force", "Native_Born_Employment",
                 "Native_Born_LF_Participation", "Foreign_Born_Emp_Pop_Ratio",
                 "Native_Born_Emp_Pop_Ratio">>

\* lines 87-110 on the merged table
Derive(df) == DataFrame(df.dtype, df.cols \o DerivedCols, MapRows(df.rows, DeriveRow))

\* STEP 3, lines 86-127: the derived columns, then to_csv, which may raise
DeriveAndSave ==
    /\ pc = "step3_derive"
    /\ merged' = <<Derive(merged[1])>>
    /\ \E saved \in BOOLEAN :
        IF saved
        THEN /\ files' = WriteFile(files, CompleteFile, Derive(merged[1]))
             /\ console' = Say("step3_saved", CompleteFile)
        ELSE /\ files' = files
             /\ console' = Say("step3_error", "OSError")
    /\ pc' = "step4"
    /\ UNCHANGED <<idx, response, total_data, fb_disk, fb, comparison, annual,
                   latest, growth, exit_code, calls,
                   session>>

----------------------------------------------------------------------------
(* STEP 4: comparison *)

\* the key columns selected on lines 137-149
ComparisonCols ==
    <<"Date", "Foreign_Born_Labor_Force", "Native_Born_Labor_Force",
      "Total_US_Labor_Force", "Foreign_Born_Employment", "Native_Born_Employment",
      "Total_US_Employment", "Foreign_Born_LF_Participation",
      "Native_Born_LF_Participation", "Foreign_Born_Emp_Pop_Ratio",
      "Native_Born_Emp_Pop_Ratio">>

\* merged[[...]] raises NameError when merged is unbound, KeyError when a
\* selected column is not there
SelectError(m) ==
    IF m = <<>> THEN "NameError"
    ELSE IF ~HasColumns(m[1], Range(ComparisonCols)) THEN "KeyError"
    ELSE ""

\* lines 137-155: the projection and the share column
Compare(df) ==
    DataFrame(df.dtype, ComparisonCols \o <<"Foreign_Born_Share_%">>,
        MapRows(df.rows, LAMBDA r :
            [c \in Range(ComparisonCols) |-> r[c]]
            @@ ("Foreign_Born_Share_%" :>
                   Flt("*", Flt("/", r["Foreign_Born_Labor_Force"],
                                r["Total_US_Labor_Force"]), 100))))

\* STEP 4 when the selection raises: comparison stays unbound
ComparisonRaises ==
    /\ pc = "step4"
    /\ SelectError(merged) # ""
    /\ console' = Say("step4_error", SelectError(merged))
    /\ pc' = "step5"
    /\ UNCHANGED <<idx, response, total_data, files, fb_disk, fb, merged,
                   comparison, annual, latest, growth, exit_code, calls,
                   session>>

\* STEP 4, lines 135-180: comparison, to_csv (which may raise), then iloc[-1],
\* which raises IndexError on an empty table
ComparisonBuilt ==
    /\ pc = "step4"
    /\ SelectError(merged) = ""
    /\ comparison' = <<Compare(merged[1])>>
    /\ \E saved \in BOOLEAN :
        LET c == Compare(merged[1])
        IN  IF ~saved
            THEN /\ files' = files
                 /\ latest' = latest
                 /\ console' = Say("step4_error", "OSError")
            ELSE /\ files' = WriteFile(files, ComparisonFile, c)
                 /\ IF Len(c.rows) = 0
                    THEN /\ latest' = latest
                         /\ console' = Say("step4_saved", ComparisonFile)
                                       \o <<<<"step4_error", "IndexError">>>>
                    ELSE /\ latest' = <<c.rows[Len(c.rows)]>>
                         /\ console' = Say("step4_saved", ComparisonFile)
                                       \o <<<<"step4_latest", c.rows[Len(c.rows)]["Date"]>>>>
    /\ pc' = "step5"
    /\ UNCHANGED <<idx, response, total_data, fb_disk, fb, merged, annual,
                   growth, exit_code, calls,
                   session>>

----------------------------------------------------------------------------
(* STEP 5: annual averages *)

\* the columns holding integers; the others hold floating-point expressions
IntCols == {"Foreign_Born_Labor_Force", "Native_Born_Labor_Force",
            "Total_US_Labor_Force", "Foreign_Born_Employment",
            "Native_Born_Employment", "Total_US_Employment",
            "Foreign_Born_LF_Participation", "Total_US_LF_Participation"}

RECURSIVE SumSeq(_)
SumSeq(s) == IF s = <<>> THEN 0 ELSE Head(s) + SumSeq(Tail(s))

RECURSIVE SortedSeq(_)
\* the elements of a set of integers in ascending order
SortedSeq(S) ==
    IF S = {} THEN <<>>
    ELSE LET m == CHOOSE x \in S : \A y \in S : x <= y
         IN  <<m>> \o SortedSeq(S \ {m})

\* the mean of a column over the rows of one group: the exact quotient
\* sum / n of an integer column, the expression for a floating-point column
Mean(col, rows) ==
    IF col \in IntCols
    THEN [sum |-> SumSeq(MapRows(rows, LAMBDA r : r[col])), n |-> Len(rows)]
    ELSE <<"mean", MapRows(rows, LAMBDA r : r[col])>>

\* comparison['Year'] = pd.to_datetime(comparison['Date']).dt.year
WithYear(df) ==
    DataFrame(df.dtype, df.cols \o <<"Year">>,
        MapRows(ToDatetime(df).rows, LAMBDA r : r @@ ("Year" :> Year(r["Date"]))))

\* the numeric columns of the comparison table other than the group key
NumericCols(df) == SelectSeq(df.cols, LAMBDA c : c \notin {"Date", "Year"})

\* groupby('Year').mean(numeric_only=True).reset_index(): one row per year
\* that occurs, in ascending order of the year
GroupByYear(df) ==
    LET years == SortedSeq({df.rows[k]["Year"] : k \in 1..Len(df.rows)})
    IN  DataFrame("none", <<"Year">> \o NumericCols(df),
            MapRows(years, LAMBDA y :
                ("Year" :> y) @@
                [c \in Range(NumericCols(df)) |->
                    Mean(c, SelectSeq(df.rows, LAMBDA r : r["Year"] = y))]))

\* the upper bound taken exclusive: Year < 2024
FilterYearsExclusive(df) ==
    DataFrame(df.dtype, df.cols,
        SelectSeq(df.rows, LAMBDA r : r["Year"] >= YearLo /\ r["Year"] < YearHi))

\* annual[(annual['Year'] >= 2015) & (annual['Year'] <= 2024)]
FilterYears(df) ==
    DataFrame(df.dtype, df.cols,
        SelectSeq(df.rows, LAMBDA r : r["Year"] >= YearLo /\ r["Year"] <= YearHi))

\* lines 189-192
Annual(cmp) == FilterYears(GroupByYear(WithYear(cmp)))

\* annual[annual['Year'] == y]
YearRows(df, y) == SelectSeq(df.rows, LAMBDA r : r["Year"] = y)

\* ((later / earlier) - 1) * 100
Growth(later, earlier) == Flt("*", Flt("-", Flt("/", later, earlier), 1), 100)

\* lines 201-216 without the guard `if len(annual) > 0`
GrowthResultUnguarded(df) ==
    IF YearRows(df, YearLo) = <<>> \/ YearRows(df, YearHi) = <<>>
    THEN [error |-> "IndexError", growth |-> <<>>]
    ELSE LET year_2015 == YearRows(df, YearLo)[1]
             year_2024 == YearRows(df, YearHi)[1]
         IN  [error |-> "",
              growth |-> <<[fb_growth |-> Growth(year_2024["Foreign_Born_Labor_Force"],
                                                 year_2015["Foreign_Born_Labor_Force"]),
                            nb_growth |-> Growth(year_2024["Native_Born_Labor_Force"],
                                                 year_2015["Native_Born_Labor_Force"])]>>]

\* lines 200-216 on the filtered annual table: the error raised, the growth
GrowthResult(df) ==
    IF Len(df.rows) = 0 THEN [error |-> "", growth |-> <<>>]
    ELSE IF YearRows(df, YearLo) = <<>> \/ YearRows(df, YearHi) = <<>>
         THEN [error |-> "IndexError", growth |-> <<>>]
    ELSE LET year_2015 == YearRows(df, YearLo)[1]
             year_2024 == YearRows(df, YearHi)[1]
         IN  [error |-> "",
              growth |-> <<[fb_growth |-> Growth(year_2024["Foreign_Born_Labor_Force"],
                                                 year_2015["Foreign_Born_Labor_Force"]),
                            nb_growth |-> Growth(year_2024["Native_Born_Labor_Force"],
                                                 year_2015["Native_Born_Labor_Force"])]>>]

\* STEP 5 when comparison is unbound: NameError
AnnualRaises ==
    /\ pc = "step5"
    /\ comparison = <<>>
    /\ console' = Say("step5_error", "NameError")
    /\ pc' = "final"
    /\ UNCHANGED <<idx, response, total_data, files, fb_disk, fb, merged,
                   comparison, annual, latest, growth, exit_code, calls,
                   session>>

\* STEP 5, lines 188-219: the Year column, the annual table, to_csv (which
\* may raise), then the 2015 vs 2024 summary
AnnualBuilt ==
    /\ pc = "step5"
    /\ comparison # <<>>
    /\ comparison' = <<WithYear(comparison[1])>>
    /\ annual' = <<Annual(comparison[1])>>
    /\ \E saved \in BOOLEAN :
        LET a == Annual(comparison[1])
            g == GrowthResult(a)
        IN  IF ~saved
            THEN /\ files' = files
                 /\ growth' = growth
                 /\ console' = Say("step5_error", "OSError")
            ELSE /\ files' = WriteFile(files, AnnualFile, a)
                 /\ growth' = g.growth
                 /\ console' = Say("step5_saved", AnnualFile)
                       \o (IF g.error # "" THEN <<<<"step5_error", g.error>>>>
                           ELSE IF g.growth # <<>> THEN <<<<"step5_growth", "">>>>
                           ELSE <<>>)
    /\ pc' = "final"
    /\ UNCHANGED <<idx, response, total_data, fb_disk, fb, merged, latest,
                   exit_code, calls,
                   session>>

----------------------------------------------------------------------------
(* FINAL SUMMARY *)

\* the names printed under "New Files Created:", lines 230-235
ManifestNames ==
    <<CompleteFile, ComparisonFile, AnnualFile,
      "fred_CLF16OV_Total_US_Labor_Force.csv",
      "fred_CE16OV_Total_US_Employment.csv",
      "fred_CIVPART_Total_US_LF_Participation.csv">>

\* lines 225-267, then the script ends
FinalSummary ==
    /\ pc = "final"
    /\ console' = console \o [k \in 1..Len(ManifestNames) |-> <<"manifest", ManifestNames[k]>>]
    /\ pc' = "done"
    /\ exit_code' = 0
    /\ UNCHANGED <<idx, response, total_data, files, fb_disk, fb, merged,
                   comparison, annual, latest, growth, calls,
                   session>>

----------------------------------------------------------------------------
(* download_workforce_data.py: the Fetcher functions *)

\* the HTTP statuses a request can be answered with
Statuses == {200, 404, 500}

\* what a request can meet: the transport raising (connection error), or a
\* response with a status whose body then parses or not
Exchanges ==
    {[raises |-> TRUE, status |-> 0, parses |-> FALSE]}
    \cup {[raises |-> FALSE, status |-> st, parses |-> FALSE] : st \in Statuses}
    \cup {[raises |-> FALSE, status |-> 200, parses |-> TRUE]}

\* what a call did: the value returned ("DataFrame", "None" or "" when it
\* raised), whether it raised to its caller, whether it printed a failure
Outcome(returned, raised, printed) ==
    [returned |-> returned, raised |-> raised, printed |-> printed]

\* download_bls_data_api: requests.post, then response.json() on status 200
download_bls_data_api(x) ==
    IF x.raises THEN Outcome("", TRUE, FALSE)
    ELSE IF x.status = 200
         THEN IF x.parses THEN Outcome("DataFrame", FALSE, FALSE)
              ELSE Outcome("", TRUE, FALSE)
    ELSE Outcome("None", FALSE, TRUE)

\* scrape_bls_tables: requests.get, then pd.read_html on status 200
scrape_bls_tables(x) ==
    IF x.raises THEN Outcome("", TRUE, FALSE)
    ELSE IF x.status = 200
         THEN IF x.parses THEN Outcome("DataFrame", FALSE, FALSE)
              ELSE Outcome("", TRUE, FALSE)
    ELSE Outcome("None", FALSE, TRUE)

\* download_from_fred: pd.read_csv(url) and the parse inside one try block;
\* read_csv raises on a connection error and on a non-success status
download_from_fred(x) ==
    IF x.raises \/ x.status # 200 \/ ~x.parses THEN Outcome("None", FALSE, TRUE)
    ELSE Outcome("DataFrame", FALSE, FALSE)

\* a caller may go on calling while no call has raised past it
CanCall ==
    /\ pc = "fetcher"
    /\ Len(calls) < MaxCalls
    /\ \A k \in 1..Len(calls) : ~calls[k].out.raised

Logged(fn, x, out) == calls \o <<[fn |-> fn, exchange |-> x, out |-> out]>>

CallBlsApi ==
    /\ CanCall
    /\ \E x \in Exchanges :
        calls' = Logged("download_bls_data_api", x, download_bls_data_api(x))
    /\ UNCHANGED <<pc, idx, response, total_data, files, fb_disk, fb, merged,
                   comparison, annual, latest, growth, console, exit_code,
                   session>>

CallScrape ==
    /\ CanCall
    /\ \E x \in Exchanges :
        calls' = Logged("scrape_bls_tables", x, scrape_bls_tables(x))
    /\ UNCHANGED <<pc, idx, response, total_data, files, fb_disk, fb, merged,
                   comparison, annual, latest, growth, console, exit_code,
                   session>>

CallFred ==
    /\ CanCall
    /\ \E x \in Exchanges :
        calls' = Logged("download_from_fred", x, download_from_fred(x))
    /\ UNCHANGED <<pc, idx, response, total_data, files, fb_disk, fb, merged,
                   comparison, annual, latest, growth, console, exit_code,
                   session>>

InitFetch ==
    /\ pc = "fetcher"
    /\ idx = 1
    /\ response = <<>>
    /\ total_data = <<>>
    /\ files = <<>>
    /\ fb_disk = <<>>
    /\ fb = <<>>
    /\ merged = <<>>
    /\ comparison = <<>>
    /\ annual = <<>>
    /\ latest = <<>>
    /\ growth = <<>>
    /\ console = <<>>
    /\ exit_code = -1
    /\ calls = <<>>
    /\ session = [input |-> <<>>, first |-> <<>>]

NextFetch == CallBlsApi \/ CallScrape \/ CallFred

SpecFetch == InitFetch /\ [][NextFetch]_vars

----------------------------------------------------------------------------
(* The Deriver, Aggregator and Reporter on any join result                 *)
(*                                                                         *)
(* SpecDerive runs lines 86-267 from the state after line 84 for every     *)
(* table the name `merged` can be bound to by six inner joins on 'Date':   *)
(* rows with distinct dates in any order.  The input tables of that state  *)
(* are the projections of the join result.                                 *)

\* the months a join result can hold
DeriveDates == {201501, 201502, 202401, 202501}

\* the values of one month in the six input tables
Profiles ==
    {[Total_US_Labor_Force |-> 160000, Foreign_Born_Labor_Force |-> 28000,
      Total_US_Employment |-> 150000, Foreign_Born_Employment |-> 27000,
      Total_US_LF_Participation |-> 63, Foreign_Born_LF_Participation |-> 66],
     [Total_US_Labor_Force |-> 166000, Foreign_Born_Labor_Force |-> 32000,
      Total_US_Employment |-> 158000, Foreign_Born_Employment |-> 30000,
      Total_US_LF_Participation |-> 62, Foreign_Born_LF_Participation |-> 67],
     [Total_US_Labor_Force |-> 20000, Foreign_Born_Labor_Force |-> 28000,
      Total_US_Employment |-> 19000, Foreign_Born_Employment |-> 27000,
      Total_US_LF_Participation |-> 63, Foreign_Born_LF_Participation |-> 66]}

\* the columns of the six merged tables, in the order of lines 79-84
MergedCols ==
    <<"Date", "Total_US_Labor_Force", "Foreign_Born_Labor_Force",
      "Total_US_Employment", "Foreign_Born_Employment",
      "Total_US_LF_Participation", "Foreign_Born_LF_Participation">>

\* the tables `merged` can be bound to after line 84: distinct dates, any order
JoinResults ==
    UNION {{DataFrame("datetime64", MergedCols,
                [k \in 1..Len(ds) |-> ("Date" :> ds[k]) @@ ps[k]])
            : ps \in [1..Len(ds) -> Profiles]}
           : ds \in InjSeqs(DeriveDates, MaxRows)}

\* the (Date, name) table a join result was merged from
Project(df, name) ==
    DataFrame(df.dtype, <<"Date", name>>,
        MapRows(df.rows, LAMBDA r : ("Date" :> r["Date"]) @@ (name :> r[name])))

\* the state after line 84 for a join result m
InitDerive ==
    \E m \in JoinResults :
        /\ pc = "step3_derive"
        /\ idx = Len(SeriesOrder) + 1
        /\ response = [n \in TotalNames |->
               [kind |-> "ok",
                body |-> MapRows(m.rows, LAMBDA r : <<FormatDate(r["Date"]), r[n]>>),
                saved |-> TRUE]]
        /\ total_data = [n \in TotalNames |-> Project(m, n)]
        /\ files = [f \in {filename(n) : n \in TotalNames} |->
               ToCsv(Project(m, CHOOSE n \in TotalNames : filename(n) = f))]
        /\ fb_disk = [n \in FbNames |-> "readable"]
        /\ fb = <<[fb_lf |-> ToCsv(Project(m, "Foreign_Born_Labor_Force")),
                   fb_emp |-> ToCsv(Project(m, "Foreign_Born_Employment")),
                   fb_lfp |-> ToCsv(Project(m, "Foreign_Born_LF_Participation"))]>>
        /\ merged = <<m>>
        /\ comparison = <<>>
        /\ annual = <<>>
        /\ latest = <<>>
        /\ growth = <<>>
        /\ console = <<>>
        /\ exit_code = -1
        /\ calls = <<>>
        /\ session = [input |-> <<m>>, first |-> <<>>]

NextDerive == DeriveAndSave \/ ComparisonBuilt \/ AnnualBuilt \/ FinalSummary

SpecDerive == InitDerive /\ [][NextDerive]_vars

\* the script invoked a second time on the same input tables: the names of the
\* first process are gone, the files it wrote are still on disk
RunAgain ==
    /\ pc = "done"
    /\ session.first = <<>>
    /\ session' = [session EXCEPT !.first =
           <<[files |-> files, merged |-> merged, comparison |-> comparison,
              annual |-> annual]>>]
    /\ pc' = "step3_derive"
    /\ merged' = session.input
    /\ comparison' = <<>>
    /\ annual' = <<>>
    /\ latest' = <<>>
    /\ growth' = <<>>
    /\ console' = <<>>
    /\ exit_code' = -1
    /\ UNCHANGED <<idx, response, total_data, files, fb_disk, fb, calls>>

NextTwice == NextDerive \/ RunAgain

\* the state after line 84 of the first of two invocations
InitTwice == InitDerive /\ Len(merged[1].rows) <= MaxRerunRows

SpecTwice == InitTwice /\ [][NextTwice]_vars

----------------------------------------------------------------------------
(* simple_labor_market_download.py: the whole run *)

Next == FetchFails \/ FetchSucceeds \/ LoadForeignBorn \/ LoadFails
        \/ MergeRaises \/ MergeDone \/ DeriveAndSave
        \/ ComparisonRaises \/ ComparisonBuilt
        \/ AnnualRaises \/ AnnualBuilt \/ FinalSummary

Spec == Init /\ [][Next]_vars

----------------------------------------------------------------------------
(* What the properties below speak of *)

Said(msg) == \E k \in 1..Len(console) : console[k][1] = msg

SaidWith(msg, arg) ==
    \E k \in 1..Len(console) : console[k][1] = msg /\ console[k][2] = arg

\* the run is past STEP 3's merge
PastMerge == pc \in {"step3_derive", "step4", "step5", "final", "done"}

\* the run is past STEP 3
PastStep3 == pc \in {"step4", "step5", "final", "done"}

\* the six input tables are all there: fetched in STEP 1, loaded in STEP 2
AllInputs == DOMAIN total_data = TotalNames /\ fb # <<>>

\* the dates of each input table that is there
InputDates ==
    [n \in DOMAIN total_data |-> DatesOf(total_data[n])]
    @@ (IF fb = <<>> THEN <<>>
        ELSE [n \in {"fb_lf", "fb_emp", "fb_lfp"} |-> DatesOf(fb[1][n])])

\* the dates present in every one of the six input tables
CommonDates ==
    IF AllInputs
    THEN {d \in UNION {InputDates[n] : n \in DOMAIN InputDates} :
             \A n \in DOMAIN InputDates : d \in InputDates[n]}
    ELSE {}

\* the six merges all ran: `merged` has the columns of the six tables
MergeComplete == merged # <<>> /\ HasColumns(merged[1], Range(MergedCols))

WrittenFiles == DOMAIN files

----------------------------------------------------------------------------
(* C1 *)

\* C1: whenever the six input tables share at least one date, the chain of
\* inner joins of STEP 3 produces a table with exactly one row per shared date.
C1_RowCountIsIntersection ==
    (PastMerge /\ AllInputs /\ CommonDates # {}) =>
        /\ MergeAll(total_data, fb[1]).error = ""
        /\ Len(MergeAll(total_data, fb[1]).merged[1].rows) = Cardinality(CommonDates)

----------------------------------------------------------------------------
(* C2 *)

\* C2: every date of the merged table, of the complete file, of the comparison
\* table and file (the rows averaged into the annual file) is present in every
\* one of the six input tables, and every such row has a value in every column.
C2_OnlyCommonDates ==
    (MergeComplete \/ comparison # <<>> \/ annual # <<>>
        \/ WrittenFiles \cap DerivedFiles # {}) =>
    LET common == CommonDates
    IN  /\ MergeComplete =>
              /\ DatesOf(merged[1]) \subseteq common
              /\ \A k \in 1..Len(merged[1].rows) :
                    DOMAIN merged[1].rows[k] = Range(merged[1].cols)
        /\ CompleteFile \in WrittenFiles => DatesOf(files[CompleteFile]) \subseteq common
        /\ ComparisonFile \in WrittenFiles => DatesOf(files[ComparisonFile]) \subseteq common
        /\ comparison # <<>> => DatesOf(comparison[1]) \subseteq common
        /\ annual # <<>> =>
              \A k \in 1..Len(annual[1].rows) :
                  annual[1].rows[k]["Year"] \in {Year(d) : d \in common}

\* a date is in one input table and not in another, the six merges ran and the
\* complete file was written without it
C2_Witness ==
    /\ AllInputs
    /\ MergeComplete
    /\ CompleteFile \in WrittenFiles
    /\ \E n, m \in DOMAIN InputDates : InputDates[n] \ InputDates[m] # {}
    /\ \E n \in DOMAIN InputDates : InputDates[n] \ DatesOf(files[CompleteFile]) # {}

----------------------------------------------------------------------------
(* C3 *)

\* the residual columns of every row of a table are the differences
ResidualsIn(t) ==
    \A k \in 1..Len(t.rows) :
        LET r == t.rows[k]
        IN  /\ r["Native_Born_Labor_Force"]
                  = r["Total_US_Labor_Force"] - r["Foreign_Born_Labor_Force"]
            /\ r["Native_Born_Employment"]
                  = r["Total_US_Employment"] - r["Foreign_Born_Employment"]
            /\ (r["Total_US_Labor_Force"] = 160000 /\ r["Foreign_Born_Labor_Force"] = 28000)
                  => r["Native_Born_Labor_Force"] = 132000
            /\ r["Foreign_Born_Labor_Force"] > r["Total_US_Labor_Force"]
                  => r["Native_Born_Labor_Force"] < 0

\* merged carries the derived columns
Derived == merged # <<>> /\ HasColumns(merged[1], Range(DerivedCols))

\* the value the input table `name` holds at datetime d
InputValues(name, d) ==
    {total_data[name].rows[k][name] :
        k \in {j \in 1..Len(total_data[name].rows) : total_data[name].rows[j]["Date"] = d}}

\* C3: in every derived record Native_Born_Labor_Force is Total_US_Labor_Force
\* minus Foreign_Born_Labor_Force and Native_Born_Employment is
\* Total_US_Employment minus Foreign_Born_Employment of that record, negative
\* when the subset exceeds the total; 160000 and 28000 give 132000; the totals
\* are those the total-US tables hold at the record's date.
C3_ResidualIsDifference ==
    /\ Derived => ResidualsIn(merged[1])
    /\ comparison # <<>> => ResidualsIn(comparison[1])
    /\ CompleteFile \in WrittenFiles => ResidualsIn(files[CompleteFile])
    /\ ComparisonFile \in WrittenFiles => ResidualsIn(files[ComparisonFile])
    /\ (Derived /\ AllInputs) =>
          \A k \in 1..Len(merged[1].rows) :
              LET r == merged[1].rows[k]
              IN  /\ r["Total_US_Labor_Force"] \in InputValues("Total_US_Labor_Force", r["Date"])
                  /\ r["Total_US_Employment"] \in InputValues("Total_US_Employment", r["Date"])

\* the complete file holds a record with 160000 - 28000 = 132000 and one with
\* a negative residual
C3_Witness ==
    /\ CompleteFile \in WrittenFiles
    /\ \E k \in 1..Len(files[CompleteFile].rows) :
          /\ files[CompleteFile].rows[k]["Total_US_Labor_Force"] = 160000
          /\ files[CompleteFile].rows[k]["Native_Born_Labor_Force"] = 132000
    /\ \E k \in 1..Len(files[CompleteFile].rows) :
          files[CompleteFile].rows[k]["Native_Born_Labor_Force"] = -8000

----------------------------------------------------------------------------
(* C4 *)

\* the comparison rows whose date falls in year y, in order
ComparisonRowsOf(y) ==
    SelectSeq(ToDatetime(comparison[1]).rows, LAMBDA r : r["Date"] \div 100 = y)

\* C4: the annual table holds exactly one row for each year of 2015..2024 in
\* which the comparison table has a row, and no other row; every field of a
\* row is the mean of that field over the comparison rows of the year; the
\* annual file, when written, holds this table.
C4_AnnualRows ==
    annual # <<>> =>
        LET a == annual[1]
            years == {y \in 2015..2024 : ComparisonRowsOf(y) # <<>>}
        IN  /\ {a.rows[k]["Year"] : k \in 1..Len(a.rows)} = years
            /\ Len(a.rows) = Cardinality(years)
            /\ \A k \in 1..Len(a.rows) :
                  LET rs == ComparisonRowsOf(a.rows[k]["Year"])
                  IN  \A c \in Range(a.cols) \ {"Year"} :
                        IF c \in IntCols
                        THEN /\ a.rows[k][c].n = Len(rs)
                             /\ a.rows[k][c].sum = SumSeq([j \in 1..Len(rs) |-> rs[j][c]])
                        ELSE a.rows[k][c] = <<"mean", [j \in 1..Len(rs) |-> rs[j][c]]>>
            /\ AnnualFile \in WrittenFiles => files[AnnualFile] = a

\* the annual file has the 2015 row averaged over two months, and the
\* comparison table a 2025 row that the file does not have
C4_Witness ==
    /\ AnnualFile \in WrittenFiles
    /\ \E k \in 1..Len(files[AnnualFile].rows) :
          /\ files[AnnualFile].rows[k]["Year"] = 2015
          /\ files[AnnualFile].rows[k]["Total_US_Labor_Force"].n = 2
    /\ ComparisonRowsOf(2025) # <<>>
    /\ \A k \in 1..Len(files[AnnualFile].rows) : files[AnnualFile].rows[k]["Year"] # 2025

----------------------------------------------------------------------------
(* C5 *)

\* the exchange is a failure: the request raised, the status is not a
\* success, or the body does not parse
Failure(x) == x.raises \/ x.status # 200 \/ ~x.parses

\* C5: a Fetcher function that meets a failure does not raise to its caller:
\* it prints a failure message and returns None.
C5_FetcherNeverRaises ==
    \A k \in 1..Len(calls) :
        Failure(calls[k].exchange) =>
            /\ ~calls[k].out.raised
            /\ calls[k].out.printed
            /\ calls[k].out.returned = "None"

----------------------------------------------------------------------------
(* C6 *)

\* C6: a series whose fetch failed has no table in total_data and no file; the
\* loop still runs for every series, and a series whose fetch succeeded has the
\* table of its own response in total_data, and in its file when the write
\* succeeded.
C6_FailureIsolated ==
    /\ \A n \in DOMAIN response :
          IF response[n].kind # "ok"
          THEN /\ n \notin DOMAIN total_data
               /\ filename(n) \notin WrittenFiles
               /\ SaidWith("step1_failed", n)
          ELSE /\ n \in DOMAIN total_data
               /\ total_data[n] = FetchedTable(n, response[n].body)
               /\ response[n].saved =>
                     /\ filename(n) \in WrittenFiles
                     /\ files[filename(n)] = ToCsv(FetchedTable(n, response[n].body))
    /\ pc = "step1" => DOMAIN response = {SeriesOrder[k] : k \in 1..(idx - 1)}
    /\ pc \notin {"step1", "fetcher"} => DOMAIN response = TotalNames

\* the first fetch failed with an HTTP error and the two later series were
\* fetched and saved
C6_Witness ==
    /\ pc = "step2"
    /\ response["Total_US_Labor_Force"].kind = "http_error"
    /\ \A n \in {"Total_US_Employment", "Total_US_LF_Participation"} :
          /\ response[n].kind = "ok"
          /\ Len(total_data[n].rows) > 0
          /\ filename(n) \in WrittenFiles
    /\ DOMAIN total_data = {"Total_US_Employment", "Total_US_LF_Participation"}
    /\ filename("Total_US_Labor_Force") \notin WrittenFiles

----------------------------------------------------------------------------
(* C7 *)

FbMissing == fb_disk # <<>> /\ \E n \in FbNames : fb_disk[n] = "missing"

\* C7: when a foreign-born file is missing or unreadable the run stops at
\* STEP 2 with exit code 1, before any merge, comparison or annual step, with
\* no derived file and no manifest; otherwise the run never exits with code 1,
\* never stops before the final summary, and ends with exit code 0 and the
\* manifest printed, whatever errors were reported.
C7_ExitOnlyOnMissingFile ==
    /\ FbMissing =>
          /\ pc = "exit1"
          /\ exit_code = 1
          /\ merged = <<>> /\ comparison = <<>> /\ annual = <<>>
          /\ WrittenFiles \cap DerivedFiles = {}
          /\ ~Said("manifest")
          /\ ~Said("step3_error") /\ ~Said("step4_error") /\ ~Said("step5_error")
    /\ (pc = "exit1" \/ exit_code = 1) => FbMissing
    /\ pc \notin {"done", "exit1"} => (exit_code = -1 /\ ENABLED Next)
    /\ pc = "done" => (exit_code = 0 /\ Said("manifest"))

\* a run that stopped at STEP 2 after STEP 1 had saved a file
C7_Witness ==
    /\ pc = "exit1"
    /\ exit_code = 1
    /\ FbMissing
    /\ WrittenFiles # {}

----------------------------------------------------------------------------
(* C8 *)

\* C8: when a total-US table is absent from total_data at merge time, STEP 3
\* reports an error and none of the complete, comparison and annual files is
\* written, whichever table is absent.
C8_AbsentTotalIsFatal ==
    (PastStep3 /\ DOMAIN total_data # TotalNames) =>
        /\ Said("step3_error")
        /\ WrittenFiles \cap DerivedFiles = {}
        /\ comparison = <<>>
        /\ annual = <<>>

\* the run ended with only the employment table absent: the first merge ran
\* and bound `merged`, then total_data['Total_US_Employment'] raised
C8_Witness ==
    /\ pc = "done"
    /\ DOMAIN total_data = {"Total_US_Labor_Force", "Total_US_LF_Participation"}
    /\ SaidWith("step3_error", "KeyError")
    /\ merged # <<>>
    /\ WrittenFiles \cap DerivedFiles = {}

----------------------------------------------------------------------------
(* C9 *)

AnnualHas(y) == YearRows(annual[1], y) # <<>>

\* the run is past STEP 5 and STEP 5 wrote the annual file
AnnualWritten == pc \in {"final", "done"} /\ AnnualFile \in WrittenFiles

\* C9 as stated: once the annual file is written, a missing 2015 or 2024 row,
\* an empty annual table included, makes the growth computation report an
\* error, and the run goes on to the final summary.
C9_MissingYearReported ==
    (AnnualWritten /\ (~AnnualHas(2015) \/ ~AnnualHas(2024))) =>
        /\ SaidWith("step5_error", "IndexError")
        /\ (pc = "final" => ENABLED FinalSummary)

\* C9 amended: with a non-empty annual table that lacks the 2015 or the 2024
\* row the growth computation reports an error; with an empty annual table the
\* summary is skipped and no error is reported; with both rows the growth is
\* computed; in each case the annual file is written first and the run goes on
\* to the final summary.
C9_MissingYearReportedUnlessEmpty ==
    AnnualWritten =>
        /\ (Len(annual[1].rows) > 0 /\ (~AnnualHas(2015) \/ ~AnnualHas(2024))) =>
              (SaidWith("step5_error", "IndexError") /\ growth = <<>>)
        /\ Len(annual[1].rows) = 0 => (~Said("step5_error") /\ growth = <<>>)
        /\ (AnnualHas(2015) /\ AnnualHas(2024)) => (~Said("step5_error") /\ growth # <<>>)
        /\ files[AnnualFile] = annual[1]
        /\ pc = "final" => ENABLED FinalSummary
        /\ pc = "done" => Said("manifest")

\* a run that ended after reporting the error for an annual table with a 2015
\* row and no 2024 row
C9_Witness ==
    /\ pc = "done"
    /\ AnnualFile \in WrittenFiles
    /\ AnnualHas(2015) /\ ~AnnualHas(2024)
    /\ SaidWith("step5_error", "IndexError")

----------------------------------------------------------------------------
(* C10 *)

Manifest == {console[k][2] : k \in {j \in 1..Len(console) : console[j][1] = "manifest"}}

\* C10: the names listed in the final manifest are exactly the names of the
\* files written during the run.
C10_ManifestIsWrittenFiles ==
    pc = "done" => Manifest = WrittenFiles

----------------------------------------------------------------------------
(* C11 *)

----------------------------------------------------------------------------
(* C12 *)

\* what the first invocation left, once the script runs a second time
FirstRun == session.first[1]

\* table t holds, in its own columns and row by row, what table u holds there
AgreesOn(t, u) ==
    /\ t.dtype = u.dtype
    /\ Len(t.rows) = Len(u.rows)
    /\ Range(t.cols) \subseteq Range(u.cols)
    /\ \A k \in 1..Len(t.rows) : \A c \in Range(t.cols) : t.rows[k][c] = u.rows[k][c]

----------------------------------------------------------------------------
(* C13 *)

\* the series whose download and parse succeeded
Parsed == {n \in DOMAIN response : response[n].kind = "ok"}

\* the series whose to_csv raised after a successful download and parse
Unsaved == {n \in Parsed : ~response[n].saved}

\* C13: the total-US tables in total_data are exactly those of the series whose
\* download and parse succeeded, whether or not their file could be written: a
\* series whose write failed is reported as failed and has no file, yet its
\* table is in total_data and the merge uses it (no KeyError for it, and
\* `merged` is bound once the labor-force table is there); every series whose
\* file was written has its table in total_data.
C13_AvailableIffParsed ==
    /\ DOMAIN total_data = Parsed
    /\ \A n \in Unsaved :
          /\ SaidWith("step1_failed", n)
          /\ filename(n) \notin WrittenFiles
          /\ total_data[n] = FetchedTable(n, response[n].body)
    /\ \A n \in TotalNames :
          filename(n) \in WrittenFiles => n \in DOMAIN total_data
    /\ (PastStep3 /\ Parsed = TotalNames) => ~SaidWith("step3_error", "KeyError")
    /\ (PastMerge /\ "Total_US_Labor_Force" \in Parsed) =>
          (merged # <<>> /\ HasColumns(merged[1], {"Total_US_Labor_Force"}))

\* the three series were downloaded, none of the three files could be written,
\* and the merge ran on the three tables up to the dtype error of line 80
C13_Witness ==
    /\ pc = "step4"
    /\ Unsaved = TotalNames
    /\ \A n \in TotalNames : Len(total_data[n].rows) > 0
    /\ WrittenFiles = {}
    /\ SaidWith("step3_error", "ValueError")
    /\ merged = <<total_data["Total_US_Labor_Force"]>>

====
